---- MODULE Spec2Model ----
(***************************************************************************)
(* Model of the chat front-end: the route authorization gate               *)
(* (authConfig.callbacks.authorized) and the chat input component          *)
(* (PureMultimodalInput) with its draft persistence, textarea sizing,      *)
(* upload queue, attachment list and submission handlers.                  *)
(*                                                                         *)
(* A string is a sequence of tokens.  A request path is a sequence of the  *)
(* tokens "/", "login", "register", "api", "x" (so "/login" is             *)
(* <<"/", "login">> and "/loginx" is <<"/", "login", "x">>); a draft is a  *)
(* sequence of the characters "a" and "\n".                                *)
(***************************************************************************)
EXTENDS Integers, Sequences, FiniteSets, TLC

VARIABLES
    pathname,           \* gate: request.nextUrl.pathname
    isLoggedIn,         \* gate: !!auth?.user
    decision,           \* gate: what authorized returned for the request
    input,              \* prop input: the draft text (state of the parent)
    localStorageInput,  \* the durable slot 'input' (useLocalStorage)
    lsRendered,         \* localStorageInput as read by the first render of the mount
    domValue,           \* textareaRef.current.value
    domRendered,        \* the value the textarea held when the component mounted
    taHeight,           \* textareaRef.current.style.height: <<>> is auto, <<n>> is n px
    mountPc,            \* position in the mount effects, "ready" once they have run
    pendingInput,       \* the setInput the hydration effect queued, applied by the re-render
    isLoading,          \* prop isLoading: a response is streaming
    attachments,        \* prop attachments
    uploadQueue,        \* state uploadQueue
    batches,            \* the handleFileChange calls awaiting Promise.all, oldest first
    messages,           \* prop messages: the entries of the message list left unfinished
    apiIdentifier,      \* the argument of a call of customModel
    model,              \* what the call returned
    ev                  \* what the last handler did (its notification, its calls)

gateVars == <<pathname, isLoggedIn, decision>>
draftVars == <<input, localStorageInput, lsRendered, domValue, domRendered, taHeight, mountPc,
               pendingInput>>
uploadVars == <<isLoading, attachments, uploadQueue, batches, messages>>
modelVars == <<apiIdentifier, model>>
vars == <<pathname, isLoggedIn, decision, input, localStorageInput, lsRendered, domValue,
          domRendered, taHeight, mountPc, pendingInput, isLoading, attachments, uploadQueue, batches,
          messages, apiIdentifier, model, ev>>

(***************************************************************************)
(* Bounds                                                                  *)
(***************************************************************************)
MaxPathLen == 3
MaxDraftLen == 2
MaxBatches == 2
MaxAttachments == 3
MaxIdLen == 3

Range(s) == {s[i] : i \in 1..Len(s)}

SeqsUpTo(S, n) == UNION {[1..k -> S] : k \in 0..n}

StartsWith(s, p) == Len(s) >= Len(p) /\ SubSeq(s, 1, Len(p)) = p

(***************************************************************************)
(* Route authorization gate                                                *)
(***************************************************************************)
PathTokens == {"/", "login", "register", "api", "x"}

Paths == {<<"/">> \o t : t \in SeqsUpTo(PathTokens, MaxPathLen - 1)}

LoginPage == <<"/", "login">>

RegisterPage == <<"/", "register">>

\* config.matcher: '/', '/:id' (one segment), '/api/:path*', '/login', '/register'
Matched(path) ==
    \/ path = <<"/">>
    \/ Len(path) >= 2 /\ \A k \in 2..Len(path) : path[k] # "/"
    \/ StartsWith(path, <<"/", "api">>) /\ (Len(path) = 2 \/ path[3] = "/")

AuthorizedRulesSwapped(auth, path) ==
    LET isOnChat == StartsWith(path, <<"/">>)
        isOnRegister == StartsWith(path, RegisterPage)
        isOnLogin == StartsWith(path, LoginPage)
    IN  IF isOnRegister \/ isOnLogin THEN "allow"
        ELSE IF auth /\ (isOnLogin \/ isOnRegister) THEN "redirect-home"
        ELSE IF isOnChat THEN (IF auth THEN "allow" ELSE "deny")
        ELSE IF auth THEN "redirect-home"
        ELSE "allow"

Authorized(auth, path) ==
    LET isOnChat == StartsWith(path, <<"/">>)
        isOnRegister == StartsWith(path, RegisterPage)
        isOnLogin == StartsWith(path, LoginPage)
    IN  IF auth /\ (isOnLogin \/ isOnRegister) THEN "redirect-home"
        ELSE IF isOnRegister \/ isOnLogin THEN "allow"
        ELSE IF isOnChat THEN (IF auth THEN "allow" ELSE "deny")
        ELSE IF auth THEN "redirect-home"
        ELSE "allow"

(***************************************************************************)
(* Draft text, durable storage and textarea sizing                         *)
(***************************************************************************)
DraftChars == {"a", "\n"}

EmptyText == <<>>

Drafts == SeqsUpTo(DraftChars, MaxDraftLen)

\* the drafts typed where only their being empty or not matters
TypedDrafts == {EmptyText, <<"a">>}

\* a || b on strings: the empty string is falsy
OrElse(a, b) == IF a # EmptyText THEN a ELSE b

\* CSS of the textarea: text-base line height, pb-10, rows={2}, 1px border each side
LineHeight == 24
PaddingBottom == 40
Rows == 2
BorderPx == 2
ExtraPx == 2
BaselineHeight == 98

Auto == <<>>

Px(n) == <<n>>

RECURSIVE Newlines(_)
Newlines(v) == IF v = <<>> THEN 0
               ELSE (IF Head(v) = "\n" THEN 1 ELSE 0) + Newlines(Tail(v))

Max(a, b) == IF a >= b THEN a ELSE b

\* the height the text needs
ContentHeight(v) == (1 + Newlines(v)) * LineHeight + PaddingBottom

\* element.scrollHeight: the larger of what the content needs and the client height,
\* the client height being the rows when the height is auto and the styled height
\* less the border otherwise
ScrollHeight(v, h) ==
    LET client == IF h = Auto THEN Rows * LineHeight + PaddingBottom ELSE h[1] - BorderPx
    IN  Max(ContentHeight(v), client)

AdjustHeightNoCollapse(v, h) == Px(ScrollHeight(v, h) + ExtraPx)

AdjustHeight(v, h) ==
    LET collapsed == Auto
    IN  Px(ScrollHeight(v, collapsed) + ExtraPx)

ResetHeight == Px(BaselineHeight)

FinalValueStoredFirst(dom, stored) == OrElse(stored, OrElse(dom, EmptyText))

\* domValue || localStorageInput || ''
FinalValue(dom, stored) == OrElse(dom, OrElse(stored, EmptyText))

MirrorEffectOnce(prev, new, stored) == stored

\* useEffect(() => setLocalStorageInput(input), [input, setLocalStorageInput]) after a
\* render that follows the mount: runs when input changed
MirrorEffect(prev, new, stored) == IF new # prev THEN new ELSE stored

(***************************************************************************)
(* Uploads                                                                 *)
(***************************************************************************)
Files == {"f1", "f2"}

Undefined == "undefined"

Pending == "pending"

Rejected == "rejected"

\* what the upload endpoint can answer: OK with the JSON body, OK with a body that
\* does not parse, an error status with a JSON body, an error status with a body that
\* does not parse, and a fetch that throws
Responses == {"ok", "okBadJson", "errJson", "errBadJson", "netError"}

\* a selection holds each file once
Selections ==
    {s \in SeqsUpTo(Files, Cardinality(Files)) : \A i, j \in 1..Len(s) : s[i] = s[j] => i = j}

NoBatch == [files |-> <<>>, results |-> <<>>, completed |-> <<>>, rejected |-> FALSE,
            submitted |-> FALSE]

NoEv == [op |-> "none", key |-> "none", shift |-> FALSE, toast |-> "none",
         prevented |-> FALSE, sends |-> <<>>, caught |-> FALSE, resp |-> "none",
         value |-> "none", batch |-> NoBatch, calls |-> <<>>]

\* the try block of uploadFile
UploadTry(file, resp) ==
    IF resp = "netError"
    THEN [threw |-> TRUE, value |-> Undefined, toast |-> "none"]
    ELSE IF resp \in {"ok", "okBadJson"}
         THEN IF resp = "okBadJson"
              THEN [threw |-> TRUE, value |-> Undefined, toast |-> "none"]
              ELSE [threw |-> FALSE, value |-> file, toast |-> "none"]
         ELSE IF resp = "errBadJson"
              THEN [threw |-> TRUE, value |-> Undefined, toast |-> "none"]
              ELSE [threw |-> FALSE, value |-> Undefined, toast |-> "server"]

UploadFileNoCatch(file, resp) == UploadTry(file, resp)

UploadFile(file, resp) ==
    LET t == UploadTry(file, resp)
    IN  IF t.threw
        THEN [threw |-> FALSE, value |-> Undefined, toast |-> "generic"]
        ELSE t

PromiseAllCompletionOrder(batch) ==
    [k \in 1..Len(batch.files) |-> batch.results[batch.completed[k]]]

\* Promise.all resolves to the results by position in the input
PromiseAll(batch) == [k \in 1..Len(batch.files) |-> batch.results[k]]

IsDefined(x) == x # Undefined

FilterDefined(rs) == SelectSeq(rs, IsDefined)

AllSettled(batch) == \A i \in 1..Len(batch.files) : batch.results[i] # Pending

RECURSIVE InFlightFiles(_)
InFlightFiles(bs) == IF bs = <<>> THEN 0 ELSE Len(Head(bs).files) + InFlightFiles(Tail(bs))

RemoveAt(s, k) == [j \in 1..(Len(s) - 1) |-> IF j < k THEN s[j] ELSE s[j + 1]]

(***************************************************************************)
(* Model providers                                                         *)
(***************************************************************************)
\* an identifier is a sequence of these pieces: "claude-3" is <<"claude", "-", "3">>
IdTokens == {"claude", "gpt", "-", "3"}

\* the registry: id and apiIdentifier of each model
Models ==
    {[id |-> <<"gpt", "-", "4o-mini">>, apiIdentifier |-> <<"gpt", "-", "4o-mini">>],
     [id |-> <<"gpt", "-", "4o">>, apiIdentifier |-> <<"gpt", "-", "4o">>],
     [id |-> <<"claude", "-", "3-opus">>,
      apiIdentifier |-> <<"claude", "-", "3-opus-20240229">>],
     [id |-> <<"claude", "-", "3-5-sonnet">>,
      apiIdentifier |-> <<"claude", "-", "3-5-sonnet-latest">>]}

ApiIdentifiers == SeqsUpTo(IdTokens, MaxIdLen) \cup {m.apiIdentifier : m \in Models}

ClaudePrefix == <<"claude", "-">>

GptPrefix == <<"gpt", "-">>

WrapLanguageModel(provider, id) ==
    [provider |-> provider, middleware |-> "customMiddleware", id |-> id]

CustomModelGptFirst(id) ==
    IF StartsWith(id, GptPrefix)
    THEN WrapLanguageModel("openai", id)
    ELSE WrapLanguageModel("anthropic", id)

CustomModel(id) ==
    IF StartsWith(id, ClaudePrefix)
    THEN WrapLanguageModel("anthropic", id)
    ELSE WrapLanguageModel("openai", id)

(***************************************************************************)
(* Initial states                                                          *)
(***************************************************************************)
InitGate ==
    /\ pathname = <<"/">>
    /\ isLoggedIn = FALSE
    /\ decision = "none"

NoModel == [provider |-> "none", middleware |-> "none", id |-> <<>>]

InitModel ==
    /\ apiIdentifier = <<>>
    /\ model = NoModel

InitUploads ==
    /\ isLoading = FALSE
    /\ messages = {}
    /\ attachments = <<>>
    /\ uploadQueue = <<>>
    /\ batches = <<>>
    /\ ev = NoEv

\* a page load with nothing rendered in the textarea: the durable slot holds what an
\* earlier visit left, the component is rendered and its effects are about to run
InitPageLoad ==
    /\ InitGate
    /\ InitModel
    /\ input = EmptyText
    /\ localStorageInput \in TypedDrafts
    /\ lsRendered = localStorageInput
    /\ domValue = EmptyText
    /\ domRendered = EmptyText
    /\ taHeight = Auto
    /\ mountPc = "adjust"
    /\ pendingInput = EmptyText
    /\ InitUploads

\* the component of a first visit once its mount effects have run (the state
\* InitPageLoad leads to when the durable slot is empty)
Init ==
    /\ InitGate
    /\ InitModel
    /\ input = EmptyText
    /\ localStorageInput = EmptyText
    /\ lsRendered = EmptyText
    /\ domValue = EmptyText
    /\ domRendered = EmptyText
    /\ taHeight = AdjustHeight(EmptyText, Auto)
    /\ mountPc = "ready"
    /\ pendingInput = EmptyText
    /\ InitUploads

(***************************************************************************)
(* The gate                                                                *)
(***************************************************************************)
\* a request arrives at the middleware
Request(path, auth) ==
    /\ decision # "none"
    /\ pathname' = path
    /\ isLoggedIn' = auth
    /\ decision' = "none"
    /\ UNCHANGED <<modelVars, draftVars, uploadVars, ev>>

\* callbacks.authorized decides it
Authorize ==
    /\ decision = "none"
    /\ decision' = Authorized(isLoggedIn, pathname)
    /\ UNCHANGED <<pathname, isLoggedIn, modelVars, draftVars, uploadVars, ev>>

\* customModel is called with an identifier
CallCustomModel ==
    /\ model = NoModel
    /\ model' = CustomModel(apiIdentifier)
    /\ UNCHANGED <<apiIdentifier, gateVars, draftVars, uploadVars, ev>>

\* the next call
NextIdentifier(id) ==
    /\ model # NoModel
    /\ apiIdentifier' = id
    /\ model' = NoModel
    /\ UNCHANGED <<gateVars, draftVars, uploadVars, ev>>

(***************************************************************************)
(* Mount: the three effects in the order they are declared, then the       *)
(* re-render the hydration effect's setInput asks for                      *)
(***************************************************************************)
MountAdjustEffect ==
    /\ mountPc = "adjust"
    /\ taHeight' = AdjustHeight(domValue, taHeight)
    /\ mountPc' = "hydrate"
    /\ ev' = [NoEv EXCEPT !.op = "mountAdjust"]
    /\ UNCHANGED <<gateVars, modelVars, input, localStorageInput, lsRendered, domValue, domRendered,
                   pendingInput, uploadVars>>

HydrateEffect ==
    /\ mountPc = "hydrate"
    /\ pendingInput' = FinalValue(domValue, lsRendered)
    /\ taHeight' = AdjustHeight(domValue, taHeight)
    /\ mountPc' = "mirror"
    /\ ev' = [NoEv EXCEPT !.op = "hydrate"]
    /\ UNCHANGED <<gateVars, modelVars, input, localStorageInput, lsRendered, domValue, domRendered,
                   uploadVars>>

MirrorOnMount ==
    /\ mountPc = "mirror"
    /\ localStorageInput' = input
    /\ mountPc' = IF pendingInput # input THEN "rerender" ELSE "ready"
    /\ ev' = [NoEv EXCEPT !.op = "mirror"]
    /\ UNCHANGED <<gateVars, modelVars, input, lsRendered, domValue, domRendered, taHeight, pendingInput,
                   uploadVars>>

Rerender ==
    /\ mountPc = "rerender"
    /\ input' = pendingInput
    /\ domValue' = pendingInput
    /\ localStorageInput' = MirrorEffect(input, pendingInput, localStorageInput)
    /\ mountPc' = "ready"
    /\ ev' = [NoEv EXCEPT !.op = "rerender"]
    /\ UNCHANGED <<gateVars, modelVars, lsRendered, domRendered, taHeight, pendingInput, uploadVars>>

\* the page is loaded again: the component and its parent start afresh, the durable
\* slot stays, the textarea may already hold a value the browser rendered
Reload(dom) ==
    /\ mountPc = "ready"
    /\ input' = EmptyText
    /\ lsRendered' = localStorageInput
    /\ domValue' = dom
    /\ domRendered' = dom
    /\ taHeight' = Auto
    /\ mountPc' = "adjust"
    /\ pendingInput' = EmptyText
    /\ isLoading' = FALSE
    /\ attachments' = <<>>
    /\ uploadQueue' = <<>>
    /\ batches' = <<>>
    /\ messages' = {}
    /\ ev' = [NoEv EXCEPT !.op = "reload"]
    /\ UNCHANGED <<gateVars, modelVars, localStorageInput>>

(***************************************************************************)
(* Typing                                                                  *)
(***************************************************************************)
HandleInput(v) ==
    /\ mountPc = "ready"
    /\ v # input
    /\ input' = v
    /\ domValue' = v
    /\ taHeight' = AdjustHeight(v, taHeight)
    /\ localStorageInput' = MirrorEffect(input, v, localStorageInput)
    /\ ev' = [NoEv EXCEPT !.op = "handleInput"]
    /\ UNCHANGED <<gateVars, modelVars, lsRendered, domRendered, mountPc, pendingInput, uploadVars>>

(***************************************************************************)
(* Submission                                                              *)
(***************************************************************************)
Keys == {"Enter", "a"}

SubmitCallsKeepAttachments(atts) ==
    [sends |-> <<atts>>, attachments |-> atts, stored |-> EmptyText]

\* what submitForm does with the attachment list and the durable slot: handleSubmit
\* is called with the list, then the list and the slot are cleared
SubmitCalls(atts) ==
    [sends |-> <<atts>>, attachments |-> <<>>, stored |-> EmptyText]

MarkSubmitted(bs) == [k \in 1..Len(bs) |-> [bs[k] EXCEPT !.submitted = TRUE]]

\* submitForm.  handleSubmit is supplied by the caller: whether it empties the draft
\* (clears) and whether a response starts to stream (streams) is its choice.  A
\* response that streams puts its own unfinished entry in the message list.
SubmitForm(e, clears, streams) ==
    LET c == SubmitCalls(attachments)
        newInput == IF clears THEN EmptyText ELSE input
    IN  /\ input' = newInput
        /\ domValue' = newInput
        /\ attachments' = c.attachments
        /\ localStorageInput' = MirrorEffect(input, newInput, c.stored)
        /\ taHeight' = ResetHeight
        /\ isLoading' = (isLoading \/ streams)
        /\ messages' = IF streams THEN messages \cup {"partial"} ELSE messages
        /\ batches' = MarkSubmitted(batches)
        /\ ev' = [e EXCEPT !.sends = c.sends]
        /\ UNCHANGED <<gateVars, modelVars, lsRendered, domRendered, mountPc, pendingInput, uploadQueue>>

SendDisabled == Len(input) = 0 \/ Len(uploadQueue) > 0

\* the send button is rendered when no response streams, and acts when not disabled
ClickSend(clears, streams) ==
    /\ mountPc = "ready"
    /\ ~isLoading
    /\ ~SendDisabled
    /\ SubmitForm([NoEv EXCEPT !.op = "clickSend", !.prevented = TRUE], clears, streams)

IsSubmitKeyAnyShift(key, shift) == key = "Enter"

\* event.key === 'Enter' && !event.shiftKey
IsSubmitKey(key, shift) == key = "Enter" /\ ~shift

\* onKeyDown of the textarea
KeyDown(key, shift) ==
    /\ mountPc = "ready"
    /\ LET e == [NoEv EXCEPT !.op = "keyDown", !.key = key, !.shift = shift]
       IN  IF IsSubmitKey(key, shift)
           THEN IF isLoading
                THEN /\ ev' = [e EXCEPT !.prevented = TRUE, !.toast = "wait"]
                     /\ UNCHANGED <<gateVars, modelVars, draftVars, uploadVars>>
                ELSE \E clears, streams \in BOOLEAN :
                        SubmitForm([e EXCEPT !.prevented = TRUE], clears, streams)
           ELSE /\ ev' = e
                /\ UNCHANGED <<gateVars, modelVars, draftVars, uploadVars>>

\* sanitizeUIMessages: the entries left unfinished by the streaming are removed
SanitizeUIMessages(ms) == ms \ {"partial"}

StopCallsAbortUploads(bs) == [calls |-> <<"stop", "setMessages">>, batches |-> <<>>]

\* what the stop button's handler calls, in order, and what it leaves of the uploads
\* in flight: it has no handle on them
StopCalls(bs) == [calls |-> <<"stop", "setMessages">>, batches |-> bs]

\* the stop button is rendered while a response streams; stop() ends the streaming
ClickStop ==
    /\ mountPc = "ready"
    /\ isLoading
    /\ isLoading' = FALSE
    /\ messages' = SanitizeUIMessages(messages)
    /\ batches' = StopCalls(batches).batches
    /\ ev' = [NoEv EXCEPT !.op = "clickStop", !.prevented = TRUE,
                          !.calls = StopCalls(batches).calls]
    /\ UNCHANGED <<gateVars, modelVars, draftVars, attachments, uploadQueue>>

\* the response ends by itself and its entry is finished
StreamFinish ==
    /\ mountPc = "ready"
    /\ isLoading
    /\ isLoading' = FALSE
    /\ messages' = messages \ {"partial"}
    /\ ev' = [NoEv EXCEPT !.op = "streamFinish"]
    /\ UNCHANGED <<gateVars, modelVars, draftVars, attachments, uploadQueue, batches>>

(***************************************************************************)
(* File selection and uploads                                              *)
(***************************************************************************)
NewBatch(files) ==
    [files |-> files, results |-> [k \in 1..Len(files) |-> Pending], completed |-> <<>>,
     rejected |-> FALSE, submitted |-> FALSE]

\* the code after await Promise.all, when it resolved
Continuation(atts, batch) == atts \o FilterDefined(PromiseAll(batch))

\* handleFileChange up to its await.  The picker opens from the attachments button,
\* which is disabled while a response streams.  With no file Promise.all resolves at
\* once and the rest of the handler runs in the same task.
HandleFileChange(files) ==
    /\ mountPc = "ready"
    /\ ~isLoading
    /\ Len(batches) < MaxBatches
    /\ Len(attachments) + InFlightFiles(batches) + Len(files) <= MaxAttachments
    /\ IF files = <<>>
       THEN /\ attachments' = Continuation(attachments, NewBatch(files))
            /\ uploadQueue' = <<>>
            /\ batches' = batches
            /\ ev' = [NoEv EXCEPT !.op = "handleFileChange"]
       ELSE /\ uploadQueue' = files
            /\ batches' = Append(batches, NewBatch(files))
            /\ attachments' = attachments
            /\ ev' = [NoEv EXCEPT !.op = "handleFileChange"]
    /\ UNCHANGED <<gateVars, modelVars, draftVars, isLoading, messages>>

\* the upload of file i of batch b ends with the answer resp; when it is the last of
\* its batch the rest of handleFileChange runs in the same task (a microtask)
UploadSettle(b, i, resp) ==
    /\ b \in 1..Len(batches)
    /\ i \in 1..Len(batches[b].files)
    /\ batches[b].results[i] = Pending
    /\ LET old == batches[b]
           r == UploadFile(old.files[i], resp)
           firstThrow == r.threw /\ ~old.rejected
           new == [old EXCEPT !.results[i] = IF r.threw THEN Rejected ELSE r.value,
                              !.completed = Append(@, i),
                              !.rejected = @ \/ r.threw]
           resolved == AllSettled(new) /\ ~new.rejected
       IN  /\ batches' = IF AllSettled(new) THEN RemoveAt(batches, b)
                         ELSE [batches EXCEPT ![b] = new]
           /\ attachments' = IF resolved THEN Continuation(attachments, new)
                             ELSE attachments
           /\ uploadQueue' = IF resolved \/ firstThrow THEN <<>> ELSE uploadQueue
           /\ ev' = [NoEv EXCEPT !.op = "uploadSettle", !.toast = r.toast,
                                 !.resp = resp, !.caught = firstThrow,
                                 !.value = new.results[i],
                                 !.batch = IF resolved THEN new ELSE NoBatch]
    /\ UNCHANGED <<gateVars, modelVars, draftVars, isLoading, messages>>

(***************************************************************************)
(* Specifications                                                          *)
(***************************************************************************)
\* the mount effects, common to the specifications of the component
Mount ==
    \/ MountAdjustEffect
    \/ HydrateEffect
    \/ MirrorOnMount
    \/ Rerender

\* the mounted component with its uploads
Next ==
    \/ \E v \in TypedDrafts : HandleInput(v)
    \/ \E clears, streams \in BOOLEAN : ClickSend(clears, streams)
    \/ \E key \in Keys : \E shift \in BOOLEAN : KeyDown(key, shift)
    \/ ClickStop
    \/ StreamFinish
    \/ \E files \in Selections : HandleFileChange(files)
    \/ \E b \in 1..MaxBatches : \E i \in 1..Cardinality(Files) : \E resp \in Responses :
          UploadSettle(b, i, resp)

Spec == Init /\ [][Next]_vars

\* the component with its draft, its durable slot and its textarea, over page loads
NextInput ==
    \/ Mount
    \/ \E dom \in Drafts : Reload(dom)
    \/ \E v \in Drafts : HandleInput(v)
    \/ \E clears, streams \in BOOLEAN : ClickSend(clears, streams)
    \/ \E key \in Keys : \E shift \in BOOLEAN : KeyDown(key, shift)
    \/ ClickStop
    \/ StreamFinish

SpecInput == InitPageLoad /\ [][NextInput]_vars

\* any request, undecided
InitRequest ==
    /\ pathname \in Paths
    /\ isLoggedIn \in BOOLEAN
    /\ decision = "none"
    /\ InitModel
    /\ input = EmptyText
    /\ localStorageInput = EmptyText
    /\ lsRendered = EmptyText
    /\ domValue = EmptyText
    /\ domRendered = EmptyText
    /\ taHeight = Auto
    /\ mountPc = "adjust"
    /\ pendingInput = EmptyText
    /\ InitUploads

NextGate ==
    \/ Authorize
    \/ \E path \in Paths : \E auth \in BOOLEAN : Request(path, auth)

SpecGate == InitRequest /\ [][NextGate]_vars

\* any identifier, customModel not yet called
InitIdentifier ==
    /\ apiIdentifier \in ApiIdentifiers
    /\ model = NoModel
    /\ InitGate
    /\ input = EmptyText
    /\ localStorageInput = EmptyText
    /\ lsRendered = EmptyText
    /\ domValue = EmptyText
    /\ domRendered = EmptyText
    /\ taHeight = Auto
    /\ mountPc = "adjust"
    /\ pendingInput = EmptyText
    /\ InitUploads

NextModel ==
    \/ CallCustomModel
    \/ \E id \in ApiIdentifiers : NextIdentifier(id)

SpecModel == InitIdentifier /\ [][NextModel]_vars

(***************************************************************************)
(* Properties                                                              *)
(***************************************************************************)
\* the step is a call of submitForm: a click on the send button, or Enter without
\* Shift while no response streams
SubmitStep ==
    \/ ev'.op = "clickSend"
    \/ ev'.op = "keyDown" /\ ev'.key = "Enter" /\ ~ev'.shift /\ ~isLoading

\* C1: a submission (a call of submitForm and of the send operation) never happens
\* while a response streams, while the draft is empty or while the upload queue is
\* not empty, whichever of the send button and the Enter key triggers it.
C1_SubmissionBlocked ==
    [][ev'.sends # <<>> =>
          /\ ~isLoading
          /\ input # EmptyText
          /\ uploadQueue = <<>>]_vars

\* C2: once the gate has decided, the decision is one of allow, deny and
\* redirect-home; it is redirect-home for the login or register page with a user,
\* allow for the login or register page without one, and for "/" allow with a user
\* and deny without.
C2_GateDecision ==
    decision # "none" =>
        /\ decision \in {"allow", "deny", "redirect-home"}
        /\ (pathname \in {LoginPage, RegisterPage} /\ isLoggedIn
               => decision = "redirect-home")
        /\ (pathname \in {LoginPage, RegisterPage} /\ ~isLoggedIn => decision = "allow")
        /\ (pathname = <<"/">> => decision = IF isLoggedIn THEN "allow" ELSE "deny")

C2_Witness == decision = "redirect-home" /\ pathname = LoginPage /\ isLoggedIn

\* C3: while a batch of N selected files has an upload that has not settled the
\* upload queue has length N, and when the last upload of a batch has settled the
\* queue has length 0.
C3_QueueLengthFollowsBatch ==
    /\ \A b \in 1..Len(batches) : Len(uploadQueue) = Len(batches[b].files)
    /\ (ev.op = "uploadSettle" /\ ev.batch # NoBatch => Len(uploadQueue) = 0)

\* the files of a batch whose upload returned an attachment, in the order selected
RECURSIVE SuccessesUpTo(_, _)
SuccessesUpTo(batch, n) ==
    IF n = 0 THEN <<>>
    ELSE SuccessesUpTo(batch, n - 1)
         \o (IF batch.results[n] \in Files THEN <<batch.files[n]>> ELSE <<>>)

SelectedSuccesses(batch) == SuccessesUpTo(batch, Len(batch.files))

\* C4: the step in which a batch settles leaves the attachment list equal to the
\* list before it followed by the files of the batch that were uploaded, in the
\* order they were selected, whatever the order the uploads completed in.
C4_AppendsInSelectionOrder ==
    [][ev'.op = "uploadSettle" /\ ev'.batch # NoBatch =>
          attachments' = attachments \o SelectedSuccesses(ev'.batch)]_vars

C4_Witness ==
    /\ ev.op = "uploadSettle"
    /\ ev.batch.files = <<"f1", "f2">>
    /\ ev.batch.completed = <<2, 1>>
    /\ ev.batch.results = <<"f1", "f2">>
    /\ attachments = <<"f2", "f1", "f2">>

\* C5: an upload that fails (an error status, a body that does not parse, a fetch
\* that throws) raises a notification and returns no attachment; no upload makes
\* handleFileChange take its catch branch; a batch leaves the in-flight list only by
\* resolving, and then the list grows by exactly its successful uploads.
C5_UploadFailureIsLocal ==
    [][ev'.op = "uploadSettle" =>
          /\ ~ev'.caught
          /\ (ev'.resp # "ok" => ev'.value = Undefined /\ ev'.toast \in {"server", "generic"})
          /\ (ev'.resp = "ok" => ev'.value \in Files /\ ev'.toast = "none")
          /\ (Len(batches') < Len(batches) => ev'.batch # NoBatch)
          /\ (ev'.batch # NoBatch =>
                 /\ ~ev'.batch.rejected
                 /\ attachments' = attachments \o SelectedSuccesses(ev'.batch))]_vars

C5_Witness ==
    /\ ev.op = "uploadSettle"
    /\ ev.resp = "ok"
    /\ ev.batch.files = <<"f1", "f2">>
    /\ ev.batch.results = <<Undefined, "f2">>
    /\ attachments = <<"f2">>

C7_DraftRoundTrip ==
    (/\ mountPc = "ready"
     /\ ev.op \in {"mirror", "rerender"}
     /\ domRendered = EmptyText
     /\ lsRendered # EmptyText)
        => input = lsRendered /\ localStorageInput = lsRendered

C7_Witness ==
    /\ mountPc = "ready"
    /\ ev.op = "rerender"
    /\ domRendered = EmptyText
    /\ lsRendered = <<"a", "\n">>
    /\ input = <<"a", "\n">>
    /\ localStorageInput = <<"a", "\n">>

\* C8: Enter without Shift while a response streams raises the "please wait"
\* notification and submits nothing; a key with Shift never submits, never raises a
\* notification and does not prevent the default action.
C8_EnterKey ==
    [][ev'.op = "keyDown" =>
          /\ (ev'.key = "Enter" /\ ~ev'.shift /\ isLoading =>
                 /\ ev'.toast = "wait"
                 /\ ev'.sends = <<>>
                 /\ attachments' = attachments)
          /\ (ev'.shift =>
                 /\ ev'.sends = <<>>
                 /\ ev'.toast = "none"
                 /\ ~ev'.prevented
                 /\ attachments' = attachments
                 /\ localStorageInput' = localStorageInput)]_vars

C8_Witness ==
    /\ ev.op = "keyDown"
    /\ ev.key = "Enter"
    /\ ~ev.shift
    /\ ev.toast = "wait"
    /\ isLoading
    /\ attachments # <<>>

\* the scroll height of the content alone: what it needs, at least the two rows
ContentScrollHeight(v) == Max(ContentHeight(v), Rows * LineHeight + PaddingBottom)

\* C9: after a call of adjustHeight the height is the scroll height of the content
\* plus 2px, and a second call with the content unchanged leaves that height.
C9_AdjustHeightIdempotent ==
    ev.op \in {"mountAdjust", "hydrate", "handleInput"} =>
        /\ taHeight = Px(ContentScrollHeight(domValue) + 2)
        /\ AdjustHeight(domValue, taHeight) = taHeight

C9_Witness ==
    /\ ev.op = "hydrate"
    /\ domValue = <<"\n", "\n">>
    /\ taHeight = Px(114)

\* C10: an upload that has not settled, with no submission since its file was
\* selected, has its file name in the upload queue.
C10_PendingUploadIsQueued ==
    \A b \in 1..Len(batches) : \A i \in 1..Len(batches[b].files) :
        batches[b].results[i] = Pending /\ ~batches[b].submitted
            => batches[b].files[i] \in Range(uploadQueue)

\* C11: for a request the middleware matches whose path is neither the login page
\* nor the register page, the gate allows with a user and denies without one.
C11_OtherPathsNeedUser ==
    (decision # "none" /\ Matched(pathname) /\ pathname \notin {LoginPage, RegisterPage})
        => decision = IF isLoggedIn THEN "allow" ELSE "deny"

\* C12: a call of submitForm leaves the upload queue empty.
C12_SubmitClearsQueue ==
    [][SubmitStep => uploadQueue' = <<>>]_vars

\* C13: when the mount effects have run the draft is the value the textarea held at
\* the mount if that is not empty, else the value of the durable slot at the mount if
\* that is not empty, else the empty string; the value seeded stays the one the
\* hydration effect computed at the mount.
C13_SeedingPriority ==
    /\ (mountPc = "ready" /\ ev.op \in {"mirror", "rerender"}) =>
          input = IF domRendered # EmptyText THEN domRendered
                  ELSE IF lsRendered # EmptyText THEN lsRendered
                  ELSE EmptyText
    /\ (mountPc \in {"mirror", "rerender", "ready"}) =>
          pendingInput = IF domRendered # EmptyText THEN domRendered ELSE lsRendered

C13_Witness ==
    /\ mountPc = "ready"
    /\ ev.op = "rerender"
    /\ domRendered = <<"a">>
    /\ lsRendered = <<"\n">>
    /\ input = <<"a">>

\* C14: the stop button's handler calls stop() first and setMessages with the
\* sanitize transform second; the message list becomes its sanitized self, and the
\* upload queue, the uploads in flight, the attachment list, the draft and the
\* stored draft are what they were; every upload still pending after the stop can
\* settle, and the one that completes its batch appends the batch's attachments.
C14_StopLeavesUploads ==
    /\ [][ev'.op = "clickStop" =>
            /\ ev'.calls = <<"stop", "setMessages">>
            /\ messages' = SanitizeUIMessages(messages)
            /\ UNCHANGED <<uploadQueue, batches, attachments, input,
                           localStorageInput>>]_vars
    /\ [](ev.op = "clickStop" =>
            \A b \in 1..Len(batches) : \A i \in 1..Len(batches[b].files) :
                batches[b].results[i] = Pending => ENABLED UploadSettle(b, i, "ok"))
    /\ [][(ev'.op = "uploadSettle" /\ ev'.batch # NoBatch /\ ~isLoading) =>
            attachments' = attachments \o SelectedSuccesses(ev'.batch)]_vars

\* a response was stopped while an upload was in flight, and the message list holds
\* no unfinished entry
C14_Witness ==
    /\ ev.op = "clickStop"
    /\ ev.calls = <<"stop", "setMessages">>
    /\ batches # <<>>
    /\ \E i \in 1..Len(batches[1].files) : batches[1].results[i] = Pending
    /\ uploadQueue # <<>>
    /\ "partial" \notin messages

\* C16: for every identifier customModel returns the Anthropic model exactly when the
\* identifier begins with 'claude-' and the OpenAI model otherwise, for the identifier
\* it was given and wrapped with customMiddleware in both cases; so a model of the
\* registry whose id begins with 'claude-' is served by Anthropic and one whose id
\* begins with 'gpt-' by OpenAI.
C16_TwoBranchDispatch ==
    /\ model # NoModel =>
          /\ model.provider \in {"anthropic", "openai"}
          /\ model.provider = "anthropic" <=>
                (Len(apiIdentifier) >= 2 /\ apiIdentifier[1] = "claude"
                                         /\ apiIdentifier[2] = "-")
          /\ model.middleware = "customMiddleware"
          /\ model.id = apiIdentifier
    /\ \A m \in Models :
          /\ StartsWith(m.id, ClaudePrefix) =>
                (apiIdentifier = m.apiIdentifier /\ model # NoModel
                    => model.provider = "anthropic")
          /\ StartsWith(m.id, GptPrefix) =>
                (apiIdentifier = m.apiIdentifier /\ model # NoModel
                    => model.provider = "openai")

\* customModel was called with the identifier of the registry's claude-3-opus
C16_Witness ==
    /\ apiIdentifier = <<"claude", "-", "3-opus-20240229">>
    /\ model.provider = "anthropic"
    /\ \E m \in Models : m.apiIdentifier = apiIdentifier /\ StartsWith(m.id, ClaudePrefix)

\* C15: while a batch has an upload that has not settled, the upload queue is not
\* empty and the send button is disabled, and nothing of the batch is in the result
\* handed to the code after Promise.all.
C15_HungUploadBlocksQueue ==
    \A b \in 1..Len(batches) :
        (\E i \in 1..Len(batches[b].files) : batches[b].results[i] = Pending)
            => /\ uploadQueue # <<>>
               /\ SendDisabled
               /\ ev.batch # batches[b]

\* C17: a batch whose uploads were in flight when submitForm ran adds nothing to the
\* attachment list when it settles: the list a submission emptied stays empty until
\* the next selection.
C17_SubmissionConsumesSelection ==
    [][(ev'.op = "uploadSettle" /\ ev'.batch # NoBatch /\ ev'.batch.submitted)
          => attachments' = attachments]_vars

====
